---- MODULE Spec2Model ----
(***************************************************************************)
(* State-machine model of the ComicsTools command-line utilities:          *)
(*   convert_to_jpg.py, resize_images.py, images_to_pdf.py,                *)
(*   extract_images.py.                                                    *)
(* Paths are sequences of one-character strings so that suffix handling,   *)
(* case folding, sorting and the "%04d" formatting are computed, not       *)
(* assumed.  Library calls (Pillow, PyMuPDF, zipfile, mobi) are modelled   *)
(* by their outcomes: success, or an exception at that call.               *)
(***************************************************************************)
EXTENDS Integers, Sequences, FiniteSets, TLC

(***************************************************************************)
(* Bounds of the model.                                                    *)
(***************************************************************************)
MaxFiles == 3
MaxSide == 47
MaxTarget == 3
MaxRuns == 2
MaxPages == 2
MaxPerPage == 2

(***************************************************************************)
(* Strings.                                                                *)
(***************************************************************************)
\* Code points of the characters that occur in the modelled paths.
Ord ==
  "." :> 46 @@ "/" :> 47 @@
  "0" :> 48 @@ "1" :> 49 @@ "2" :> 50 @@ "3" :> 51 @@ "4" :> 52 @@
  "5" :> 53 @@ "6" :> 54 @@ "7" :> 55 @@ "8" :> 56 @@ "9" :> 57 @@
  "D" :> 68 @@ "E" :> 69 @@ "F" :> 70 @@ "G" :> 71 @@ "J" :> 74 @@ "P" :> 80 @@
  "a" :> 97 @@ "b" :> 98 @@ "c" :> 99 @@ "d" :> 100 @@ "e" :> 101 @@
  "f" :> 102 @@ "g" :> 103 @@ "h" :> 104 @@ "i" :> 105 @@ "j" :> 106 @@
  "l" :> 108 @@ "m" :> 109 @@ "n" :> 110 @@ "o" :> 111 @@ "p" :> 112 @@
  "s" :> 115 @@ "t" :> 116 @@ "u" :> 117 @@ "w" :> 119 @@ "x" :> 120

Chr(n) == CHOOSE c \in DOMAIN Ord : Ord[c] = n

\* str.lower() on one character and on a string.
LowerChar(c) == IF Ord[c] >= 65 /\ Ord[c] <= 90 THEN Chr(Ord[c] + 32) ELSE c

Lower(s) == [k \in 1..Len(s) |-> LowerChar(s[k])]

\* Python's str ordering: lexicographic by code point, a proper prefix first.
RECURSIVE StrLess(_, _)
StrLess(a, b) ==
  IF b = <<>> THEN FALSE
  ELSE IF a = <<>> THEN TRUE
  ELSE IF Ord[Head(a)] < Ord[Head(b)] THEN TRUE
  ELSE IF Ord[Head(a)] > Ord[Head(b)] THEN FALSE
  ELSE StrLess(Tail(a), Tail(b))

\* str.rfind(c): the last position of c in s, 0 when absent.
RFind(s, c) ==
  LET hits == {k \in 1..Len(s) : s[k] = c}
  IN IF hits = {} THEN 0 ELSE CHOOSE k \in hits : \A m \in hits : m <= k

\* PurePath.name: the final component.
Name(p) == SubSeq(p, RFind(p, "/") + 1, Len(p))

\* PurePath.suffix: from the last dot of the name, unless that dot is the
\* first or the last character of the name.
Suffix(p) ==
  LET n == Name(p)
      d == RFind(n, ".")
  IN IF d > 1 /\ d < Len(n) THEN SubSeq(n, d, Len(n)) ELSE <<>>

\* PurePath.with_suffix(suffix).
WithSuffix(p, suffix) == SubSeq(p, 1, Len(p) - Len(Suffix(p))) \o suffix

\* PurePath.relative_to / startswith on whole components.
IsUnder(p, dir) ==
  /\ Len(p) > Len(dir) + 1
  /\ SubSeq(p, 1, Len(dir)) = dir
  /\ p[Len(dir) + 1] = "/"

EndsWith(s, t) == Len(s) >= Len(t) /\ SubSeq(s, Len(s) - Len(t) + 1, Len(s)) = t

DotJpg == <<".", "j", "p", "g">>
DotJpeg == <<".", "j", "p", "e", "g">>
DotPng == <<".", "p", "n", "g">>
DotGif == <<".", "g", "i", "f">>
DotWebp == <<".", "w", "e", "b", "p">>
DotBmp == <<".", "b", "m", "p">>
DotTiff == <<".", "t", "i", "f", "f">>
DotPdf == <<".", "p", "d", "f">>
DotEpub == <<".", "e", "p", "u", "b">>
DotMobi == <<".", "m", "o", "b", "i">>
DotPDF == <<".", "P", "D", "F">>
DotTxt == <<".", "t", "x", "t">>

IMAGE_EXTENSIONS == {DotJpg, DotJpeg, DotPng, DotGif, DotWebp, DotBmp, DotTiff}

\* f.suffix.lower() in IMAGE_EXTENSIONS
IsImageName(p) == Lower(Suffix(p)) \in IMAGE_EXTENSIONS

\* str(p), the key of the sort by full path.
FullPath(p) == p

\* key(p) of a sort: p.name for by = "name", str(p) for by = "path".
SortKey(p, by) == IF by = "name" THEN Name(p) ELSE FullPath(p)

\* All orders a (stable) sort by that key can produce from S listed in any
\* order: the permutations of S that are non-decreasing in the key.
SortedSeqs(S, by) ==
  {s \in [1..Cardinality(S) -> S] :
      /\ \A x \in S : \E k \in 1..Cardinality(S) : s[k] = x
      /\ \A j, k \in 1..Cardinality(S) :
            j < k => ~StrLess(SortKey(s[k], by), SortKey(s[j], by))}

(***************************************************************************)
(* Double-precision arithmetic of resize_image.  A positive float is a     *)
(* record [q0, q1, q2, e]: its 53-bit significand is                       *)
(*   q0 * Limb^2 + q1 * Limb + q2   with 2^16 <= q0 < 2^17, q1, q2 < Limb, *)
(* and e is the binary exponent of the leading bit, so that the value is   *)
(* significand * 2^(e - 52).  The operands are integers below 2^12, which  *)
(* keeps every intermediate product inside TLC's 32-bit integers.          *)
(***************************************************************************)
LimbBits == 18
Limb == 2 ^ LimbBits
TopBits == 17

\* Exponent e with 2^e <= n/d < 2^(e+1), for positive integers n and d.
RECURSIVE Exp2Of(_, _)
Exp2Of(n, d) ==
  IF n >= 2 * d THEN Exp2Of(n, 2 * d) + 1
  ELSE IF n < d THEN Exp2Of(2 * n, d) - 1
  ELSE 0

\* n/d scaled by a power of two into [1, 2): numerator and denominator.
RECURSIVE ScaledNum(_, _)
ScaledNum(n, d) ==
  IF n >= 2 * d THEN ScaledNum(n, 2 * d)
  ELSE IF n < d THEN ScaledNum(2 * n, d)
  ELSE n

RECURSIVE ScaledDen(_, _)
ScaledDen(n, d) ==
  IF n >= 2 * d THEN ScaledDen(n, 2 * d)
  ELSE IF n < d THEN ScaledDen(2 * n, d)
  ELSE d

\* Number of binary digits of a natural number.
RECURSIVE BitLen(_)
BitLen(n) == IF n = 0 THEN 0 ELSE BitLen(n \div 2) + 1

\* IEEE 754 round-to-nearest, ties-to-even: the significand q0:q1:q2 with
\* exponent e, followed by a round bit and a sticky flag.
RoundNearestEven(q0, q1, q2, e, roundBit, sticky) ==
  IF roundBit = 1 /\ (sticky \/ q2 % 2 = 1)
  THEN IF q2 + 1 < Limb THEN [q0 |-> q0, q1 |-> q1, q2 |-> q2 + 1, e |-> e]
       ELSE IF q1 + 1 < Limb THEN [q0 |-> q0, q1 |-> q1 + 1, q2 |-> 0, e |-> e]
       ELSE IF q0 + 1 < 2 ^ TopBits THEN [q0 |-> q0 + 1, q1 |-> 0, q2 |-> 0, e |-> e]
       ELSE [q0 |-> 2 ^ (TopBits - 1), q1 |-> 0, q2 |-> 0, e |-> e + 1]
  ELSE [q0 |-> q0, q1 |-> q1, q2 |-> q2, e |-> e]

\* Python's int / int for positive operands: the correctly rounded quotient,
\* by long division, one limb at a time.
FloatDiv(n, d) ==
  LET sn == ScaledNum(n, d)
      sd == ScaledDen(n, d)
      q0 == (sn * 2 ^ (TopBits - 1)) \div sd
      r0 == (sn * 2 ^ (TopBits - 1)) % sd
      q1 == (r0 * Limb) \div sd
      r1 == (r0 * Limb) % sd
      q2 == (r1 * Limb) \div sd
      r2 == (r1 * Limb) % sd
  IN RoundNearestEven(q0, q1, q2, Exp2Of(n, d), (2 * r2) \div sd, (2 * r2) % sd # 0)

\* Python's int * float for a positive int h: h is exact as a float, and the
\* exact product is rounded once to 53 bits.
FloatMulInt(h, f) ==
  LET p2 == h * f.q2
      p1 == h * f.q1 + p2 \div Limb
      p0 == h * f.q0 + p1 \div Limb
      l1 == p1 % Limb
      l2 == p2 % Limb
      extra == BitLen(p0) - TopBits          \* bits beyond the 53 kept
      cut == 2 ^ extra
      up == 2 ^ (LimbBits - extra)
      dropped == l2 % cut
      roundBit == IF extra = 0 THEN 0 ELSE dropped \div (cut \div 2)
      sticky == extra > 0 /\ dropped % (cut \div 2) # 0
  IN RoundNearestEven(p0 \div cut,
                      l1 \div cut + (p0 % cut) * up,
                      l2 \div cut + (l1 % cut) * up,
                      f.e + extra, roundBit, sticky)

\* Python's int(float) for a positive float below 2^31: truncation.
FloatToInt(f) ==
  LET shift == 52 - f.e                     \* significand bits after the point
  IN IF f.e < 0 THEN 0
     ELSE IF shift >= 2 * LimbBits THEN f.q0 \div 2 ^ (shift - 2 * LimbBits)
     ELSE f.q0 * 2 ^ (2 * LimbBits - shift) + f.q1 \div 2 ^ (shift - LimbBits)

\* A rounding variant of the height: round(h * t / w) to the nearest integer.
TargetHeightRounded(original_height, target_width, original_width) ==
  (2 * original_height * target_width + original_width) \div (2 * original_width)

\* ratio = target_width / original_width
\* target_height = int(original_height * ratio)
TargetHeight(original_height, target_width, original_width) ==
  FloatToInt(FloatMulInt(original_height, FloatDiv(target_width, original_width)))

(***************************************************************************)
(* Files and images.                                                       *)
(***************************************************************************)
a_png == <<"a", ".", "p", "n", "g">>
a_jpg == <<"a", ".", "j", "p", "g">>
a_bmp == <<"a", ".", "b", "m", "p">>
b_JPEG == <<"b", ".", "J", "P", "E", "G">>
n_txt == <<"n", ".", "t", "x", "t">>
s_a_png == <<"s", "/", "a", ".", "p", "n", "g">>

\* The regular files a source folder may hold, as paths relative to it.
FolderFiles == {a_png, a_jpg, a_bmp, b_JPEG, n_txt, s_a_png}

\* Pillow image modes.
Modes == {"RGB", "RGBA", "P", "L", "LA", "CMYK"}

\* A file that was in the folder before the run.  What it holds is learnt
\* when it is opened: always its mode, and its size too when the initial
\* state leaves the size open (w = 0).
Original(p) == [orig |-> TRUE, src |-> p, mode |-> "?", w |-> 0, h |-> 0]

OriginalOfSize(p, w, h) == [orig |-> TRUE, src |-> p, mode |-> "?", w |-> w, h |-> h]

\* A JPEG file written by the run from the image src.
Jpeg(src, mode, w, h) == [orig |-> FALSE, src |-> src, mode |-> mode, w |-> w, h |-> h]

\* What a save that raised may leave behind at the output path.
Partial(src) == [orig |-> FALSE, src |-> src, mode |-> "partial", w |-> 0, h |-> 0]

NoSize == <<0, 0>>

NoPdf == [state |-> "none", pages |-> <<>>]

m8_a_jpg == <<"m", "o", "b", "i", "8", "/", "a", ".", "j", "p", "g">>
m8_i_a_jpg == <<"m", "o", "b", "i", "8", "/", "i", "/", "a", ".", "j", "p", "g">>
m7_a_jpg == <<"m", "o", "b", "i", "7", "/", "a", ".", "j", "p", "g">>
m7_b_png == <<"m", "o", "b", "i", "7", "/", "b", ".", "p", "n", "g">>
c_gif == <<"c", ".", "g", "i", "f">>
mobi8 == <<"m", "o", "b", "i", "8">>
mobi7 == <<"m", "o", "b", "i", "7">>

\* The regular files an unpacked MOBI may hold, relative to the temporary
\* directory.
MobiFiles == {m8_a_jpg, m8_i_a_jpg, m7_a_jpg, m7_b_png, c_gif}

\* The sizes <<width, height>> of the images of a folder whose initial state
\* leaves the sizes open.
FolderSizes == {<<1, 1>>, <<3, 1>>}

\* Image.open(path): the images the call can return (none when it raises).
Opened(files, p) ==
  IF p \notin DOMAIN files THEN {}
  ELSE IF files[p].orig /\ files[p].w = 0
  THEN {[mode |-> m, w |-> sz[1], h |-> sz[2]] : m \in Modes, sz \in FolderSizes}
  ELSE IF files[p].orig
  THEN {[mode |-> m, w |-> files[p].w, h |-> files[p].h] : m \in Modes}
  ELSE IF files[p].mode = "partial" THEN {}
  ELSE {[mode |-> files[p].mode, w |-> files[p].w, h |-> files[p].h]}

\* convert_to_jpg.py, resize_images.py, images_to_pdf.py:
\*   if mode in ("RGBA", "P"): convert("RGB")  elif mode != "RGB": convert("RGB")
ConvertMode(mode) ==
  IF mode \in {"RGBA", "P"} THEN "RGB"
  ELSE IF mode # "RGB" THEN "RGB"
  ELSE mode

\* The modes Pillow's JPEG encoder accepts (of Modes).
JpegWritable(mode) == mode \in {"RGB", "L", "CMYK"}

\* extract_images.py, save_image_as_jpg:
\*   if img.mode in ("RGBA", "P"): img = img.convert("RGB")
SaveMode(mode) == IF mode \in {"RGBA", "P"} THEN "RGB" ELSE mode

\* The images the bytes of an embedded image can decode to: Pillow opens a
\* JPEG stream as L, RGB or CMYK, other formats in any of Modes.
Payloads ==
  {[fmt |-> "JPEG", mode |-> m] : m \in {"RGB", "L", "CMYK"}}
    \cup {[fmt |-> "PNG", mode |-> m] : m \in Modes}

\* Decimal digits of a natural number, most significant first.
RECURSIVE DecOf(_)
DecOf(n) == IF n < 10 THEN <<Chr(48 + n)>> ELSE DecOf(n \div 10) \o <<Chr(48 + (n % 10))>>

\* Variant: a field of three characters.
Fmt04Short(n) ==
  LET digits == DecOf(n)
  IN [k \in 1..(IF Len(digits) < 3 THEN 3 - Len(digits) ELSE 0) |-> "0"] \o digits

\* f"{n:04d}": zero-padded on the left to at least four characters.
Fmt04(n) ==
  LET digits == DecOf(n)
  IN [k \in 1..(IF Len(digits) < 4 THEN 4 - Len(digits) ELSE 0) |-> "0"] \o digits

\* Path.iterdir(): the entries directly in the folder.
IterDir(files) == {p \in DOMAIN files : RFind(p, "/") = 0}

\* Path.rglob("*"): the entries of the whole tree.
RGlobAll(files) == DOMAIN files

Write(files, p, content) == [q \in DOMAIN files \cup {p} |-> IF q = p THEN content ELSE files[q]]

Unlink(files, p) == [q \in DOMAIN files \ {p} |-> files[q]]

(***************************************************************************)
(* State.                                                                  *)
(***************************************************************************)
VARIABLES
  tool,          \* which script runs
  pc,            \* where the run is: "main", "open", "loop" or "done"
  exit_status,   \* -1 while running, then the process's exit status
  path_kind,     \* the argument path: "missing", "file" or "dir"
  fs,            \* the source folder: path -> file
  fs0,           \* fs when the run started
  image_files,   \* the sorted list of located items
  idx,           \* index of the next item (PDF: img_index on the page)
  count,         \* converted_count / processed_count / image_count
  attempted,     \* the items attempted so far, in order
  log,           \* per attempted item: the call that raised, "none" if none
  run,           \* number of the run over the same folder
  target_width,  \* resize: args.width
  original_size, \* resize: img.size of the last opened image
  images,        \* images_to_pdf: the loaded images
  output_pdf,    \* images_to_pdf: the file at the output path
  suffix,        \* extract: suffix of the input path
  out_folder,    \* extract: the output folder was created by the run
  written,       \* extract: output file name -> file written by the run
  container,     \* extract: what the input file holds
  page_num,      \* extract (PDF): the current page
  tempdir        \* extract (MOBI): "none", "exists" or "removed"

vars == <<tool, pc, exit_status, path_kind, fs, fs0, image_files, idx, count,
          attempted, log, run, target_width, original_size, images, output_pdf,
          suffix, out_folder, written, container, page_num, tempdir>>

dirVars == <<images, output_pdf, original_size>>
extractVars == <<suffix, out_folder, written, container, page_num, tempdir>>
inputVars == <<tool, path_kind, target_width, run, fs0>>

\* Number of attempted items that failed.
Failures(l) == Cardinality({k \in 1..Len(l) : l[k] # "none"})

\* The folders a run may be given.
Folders ==
  {[p \in S |-> Original(p)] : S \in {T \in SUBSET FolderFiles : Cardinality(T) <= MaxFiles}}

NoFiles == [p \in {} |-> Original(p)]

InitCommon ==
  /\ pc = "main"
  /\ exit_status = -1
  /\ path_kind \in {"missing", "file", "dir"}
  /\ image_files = <<>>
  /\ idx = 1
  /\ count = 0
  /\ attempted = <<>>
  /\ log = <<>>
  /\ run = 1
  /\ original_size = NoSize
  /\ images = <<>>
  /\ output_pdf = NoPdf
  /\ out_folder = FALSE
  /\ written = NoFiles
  /\ page_num = 0
  /\ tempdir = "none"

InitFolder ==
  /\ InitCommon
  /\ fs \in IF path_kind = "dir" THEN Folders ELSE {NoFiles}
  /\ fs0 = fs
  /\ suffix = <<>>
  /\ container = <<>>

InitConvert == tool = "convert" /\ target_width = 0 /\ InitFolder

InitResize == tool = "resize" /\ target_width \in (-1)..MaxTarget /\ InitFolder

InitPdf == tool = "pdf" /\ target_width = 0 /\ InitFolder

\* A resize run over a folder that holds one image of a given size.
InitResizeSizes ==
  /\ tool = "resize"
  /\ target_width \in 1..MaxTarget
  /\ InitCommon
  /\ path_kind = "dir"
  /\ fs \in {[p \in {a_png} |-> OriginalOfSize(p, w, h)] : w \in 1..MaxSide, h \in 1..MaxSide}
  /\ fs0 = fs
  /\ suffix = <<>>
  /\ container = <<>>

\* sys.exit(status), the end of the script (status 0), or an exception that
\* nothing catches (status 1).
Exit(status) == pc' = "done" /\ exit_status' = status

\* Variant: an item is skipped.
NextIndexSkip(i) == i + 2

\* The for loop's step to the next item of the list.
NextIndex(i) == i + 1

(***************************************************************************)
(* convert_to_jpg.py                                                       *)
(***************************************************************************)
\* Variant: only ".jpg" is taken as already converted.
IsJpegSuffixJpgOnly(sfx) == sfx = DotJpg

\* suffix == ".jpg" or suffix == ".jpeg"
IsJpegSuffix(sfx) == sfx = DotJpg \/ sfx = DotJpeg

\* convert_images_in_directory up to the loop: the path checks, the listing
\* and the sort by file name.
ConvertMain ==
  /\ tool = "convert" /\ pc = "main"
  /\ IF path_kind = "missing" THEN Exit(1) /\ UNCHANGED image_files
     ELSE IF path_kind # "dir" THEN Exit(1) /\ UNCHANGED image_files
     ELSE LET found == {f \in IterDir(fs) : IsImageName(f)}
          IN IF found = {}
             THEN Exit(0) /\ UNCHANGED image_files
             ELSE /\ image_files' \in SortedSeqs(found, "name")
                  /\ pc' = "loop"
                  /\ UNCHANGED exit_status
  /\ idx' = 1
  /\ count' = 0
  /\ UNCHANGED <<fs, attempted, log, inputVars, dirVars, extractVars>>

\* The file system after convert_image_to_jpg(image_path) when the call
\* named by raised raises ("none": nothing raises), for the opened image.
ConvertFiles(files, image_path, image, raised) ==
  LET output_path == WithSuffix(image_path, DotJpg)
      out == Jpeg(files[image_path].src, ConvertMode(image.mode), image.w, image.h)
  IN CASE raised = "none" -> {Unlink(Write(files, output_path, out), image_path)}
       [] raised = "unlink" -> {Write(files, output_path, out)}
       [] raised = "save" -> {files, Write(files, output_path, Partial(files[image_path].src))}
       [] OTHER -> {files}

\* One iteration of the loop: convert_image_to_jpg(image_file) and the count.
ConvertItem ==
  /\ tool = "convert" /\ pc = "loop" /\ idx <= Len(image_files)
  /\ LET image_path == image_files[idx]
         sfx == Lower(Suffix(image_path))
     IN /\ attempted' = Append(attempted, image_path)
        /\ idx' = NextIndex(idx)
        /\ IF IsJpegSuffix(sfx)
           THEN /\ count' = count + 1
                /\ log' = Append(log, "none")
                /\ fs' = fs
           ELSE \/ \E image \in Opened(fs, image_path) :
                     \E raised \in {"none", "convert", "save", "unlink"} :
                        /\ raised = "convert" => image.mode # "RGB"
                        /\ log' = Append(log, raised)
                        /\ fs' \in ConvertFiles(fs, image_path, image, raised)
                        /\ count' = IF raised = "none" THEN count + 1 ELSE count
                \/ /\ log' = Append(log, "open")   \* Image.open raises
                   /\ fs' = fs
                   /\ count' = count
  /\ UNCHANGED <<pc, exit_status, image_files, inputVars, dirVars, extractVars>>

\* After the loop: the summary line and the normal end of the script.
ConvertSummary ==
  /\ tool = "convert" /\ pc = "loop" /\ idx > Len(image_files)
  /\ Exit(0)
  /\ UNCHANGED <<fs, image_files, idx, count, attempted, log, inputVars,
                 dirVars, extractVars>>

\* The user runs the script again on the folder as the last run left it.
ConvertAgain ==
  /\ tool = "convert" /\ pc = "done" /\ exit_status = 0 /\ run < MaxRuns
  /\ run' = run + 1
  /\ fs0' = fs
  /\ pc' = "main"
  /\ exit_status' = -1
  /\ image_files' = <<>>
  /\ idx' = 1
  /\ count' = 0
  /\ attempted' = <<>>
  /\ log' = <<>>
  /\ UNCHANGED <<tool, path_kind, target_width, fs, dirVars, extractVars>>

NextConvert == ConvertMain \/ ConvertItem \/ ConvertSummary \/ ConvertAgain

SpecConvert == InitConvert /\ [][NextConvert]_vars

(***************************************************************************)
(* resize_images.py                                                        *)
(***************************************************************************)
\* main() and resize_images_in_directory up to the loop: the width check,
\* the path checks, the recursive listing and the sort by full path.
ResizeMain ==
  /\ tool = "resize" /\ pc = "main"
  /\ IF target_width <= 0 THEN Exit(1) /\ UNCHANGED image_files
     ELSE IF path_kind = "missing" THEN Exit(1) /\ UNCHANGED image_files
     ELSE IF path_kind # "dir" THEN Exit(1) /\ UNCHANGED image_files
     ELSE LET found == {f \in RGlobAll(fs) : IsImageName(f)}
          IN IF found = {}
             THEN Exit(0) /\ UNCHANGED image_files
             ELSE /\ image_files' \in SortedSeqs(found, "path")
                  /\ pc' = "loop"
                  /\ UNCHANGED exit_status
  /\ idx' = 1
  /\ count' = 0
  /\ UNCHANGED <<fs, attempted, log, inputVars, dirVars, extractVars>>

\* The file system after resize_image(image_path, ...) when the call named by
\* raised raises ("none": nothing raises), for the opened image and the
\* computed height.
ResizeFiles(files, image_path, image, width, target_height, raised) ==
  LET output_path == WithSuffix(image_path, DotJpg)
      out == Jpeg(files[image_path].src, ConvertMode(image.mode), width, target_height)
  IN CASE raised = "none" ->
            IF image_path # output_path
            THEN {Unlink(Write(files, output_path, out), image_path)}
            ELSE {Write(files, output_path, out)}
       [] raised = "unlink" -> {Write(files, output_path, out)}
       [] raised = "save" -> {files, Write(files, output_path, Partial(files[image_path].src))}
       [] OTHER -> {files}

\* The calls of resize_image that can raise for this image: Image.resize
\* rejects a height below 1, and then nothing after it is reached.
ResizeFaults(image_path, image, target_height) ==
  IF target_height < 1 THEN {"resize"}
  ELSE {"none", "save"}
       \cup (IF image.mode # "RGB" THEN {"convert"} ELSE {})
       \cup (IF image_path # WithSuffix(image_path, DotJpg) THEN {"unlink"} ELSE {})

\* One iteration of the loop: resize_image(image_file, ...) and the count.
ResizeItem ==
  /\ tool = "resize" /\ pc = "loop" /\ idx <= Len(image_files)
  /\ LET image_path == image_files[idx]
     IN /\ attempted' = Append(attempted, image_path)
        /\ idx' = NextIndex(idx)
        /\ \/ \E image \in Opened(fs, image_path) :
                LET target_height == TargetHeight(image.h, target_width, image.w)
                IN \E raised \in ResizeFaults(image_path, image, target_height) :
                     /\ original_size' = <<image.w, image.h>>
                     /\ log' = Append(log, raised)
                     /\ fs' \in ResizeFiles(fs, image_path, image, target_width,
                                            target_height, raised)
                     /\ count' = IF raised = "none" THEN count + 1 ELSE count
           \/ /\ log' = Append(log, "open")   \* Image.open raises
              /\ fs' = fs
              /\ original_size' = NoSize
              /\ count' = count
  /\ UNCHANGED <<pc, exit_status, image_files, inputVars, images, output_pdf,
                 extractVars>>

\* After the loop: the summary line and the normal end of the script.
ResizeSummary ==
  /\ tool = "resize" /\ pc = "loop" /\ idx > Len(image_files)
  /\ Exit(0)
  /\ UNCHANGED <<fs, image_files, idx, count, attempted, log, inputVars,
                 dirVars, extractVars>>

NextResize == ResizeMain \/ ResizeItem \/ ResizeSummary

SpecResize == InitResize /\ [][NextResize]_vars

SpecResizeSizes == InitResizeSizes /\ [][NextResize]_vars

(***************************************************************************)
(* images_to_pdf.py                                                        *)
(***************************************************************************)
\* images_to_pdf up to the loop: the path checks, the listing, the check for
\* an empty list and the sort by file name.
PdfMain ==
  /\ tool = "pdf" /\ pc = "main"
  /\ IF path_kind = "missing" THEN Exit(1) /\ UNCHANGED image_files
     ELSE IF path_kind # "dir" THEN Exit(1) /\ UNCHANGED image_files
     ELSE LET found == {f \in IterDir(fs) : IsImageName(f)}
          IN IF found = {}
             THEN Exit(1) /\ UNCHANGED image_files
             ELSE /\ image_files' \in SortedSeqs(found, "name")
                  /\ pc' = "loop"
                  /\ UNCHANGED exit_status
  /\ idx' = 1
  /\ UNCHANGED <<fs, count, attempted, log, inputVars, dirVars, extractVars>>

\* One iteration of the loading loop.
PdfItem ==
  /\ tool = "pdf" /\ pc = "loop" /\ idx <= Len(image_files)
  /\ LET image_file == image_files[idx]
     IN /\ attempted' = Append(attempted, image_file)
        /\ idx' = NextIndex(idx)
        /\ \/ \E image \in Opened(fs, image_file) :
                \/ /\ images' = Append(images, Jpeg(image_file, ConvertMode(image.mode),
                                                    image.w, image.h))
                   /\ log' = Append(log, "none")
                \/ /\ image.mode # "RGB"              \* convert raises
                   /\ log' = Append(log, "convert")
                   /\ UNCHANGED images
           \/ /\ log' = Append(log, "open")          \* Image.open raises
              /\ UNCHANGED images
  /\ UNCHANGED <<pc, exit_status, fs, image_files, count, inputVars, output_pdf,
                 original_size, extractVars>>

\* After the loop: the check for an empty list of loaded images, then the one
\* save of all pages, which no handler encloses, and the summary.
PdfSave ==
  /\ tool = "pdf" /\ pc = "loop" /\ idx > Len(image_files)
  /\ IF images = <<>>
     THEN Exit(1) /\ UNCHANGED output_pdf
     ELSE \/ /\ output_pdf' = [state |-> "written", pages |-> images]
             /\ Exit(0)
          \/ /\ output_pdf' \in {[state |-> "failed", pages |-> <<>>],
                                 [state |-> "partial", pages |-> <<>>]}
             /\ Exit(1)                              \* save raises
  /\ UNCHANGED <<fs, image_files, idx, count, attempted, log, inputVars,
                 images, original_size, extractVars>>

NextPdf == PdfMain \/ PdfItem \/ PdfSave

SpecPdf == InitPdf /\ [][NextPdf]_vars

(***************************************************************************)
(* extract_images.py                                                       *)
(***************************************************************************)
\* The suffixes the input path may have.
InputSuffixes == {DotPdf, DotPDF, DotEpub, DotMobi, DotTxt, <<>>}

RECURSIVE SumSeq(_)
SumSeq(q) == IF q = <<>> THEN 0 ELSE Head(q) + SumSeq(Tail(q))

\* A PDF document: the number of image references of each page, with at most
\* MaxFiles images in all.
Docs ==
  {d \in UNION {[1..n -> 0..MaxPerPage] : n \in 0..MaxPages} : SumSeq(d) <= MaxFiles}

\* An EPUB archive: the names of its entries.
Archives == {S \in SUBSET FolderFiles : Cardinality(S) <= MaxFiles}

\* An unpacked MOBI: the files of the temporary directory.
Trees == {S \in SUBSET MobiFiles : Cardinality(S) <= MaxFiles}

\* Nothing of the input file is known before an adapter opens it.
NoContainer == <<>>

InitExtract ==
  /\ tool = "extract"
  /\ target_width = 0
  /\ InitCommon
  /\ fs = NoFiles
  /\ fs0 = fs
  /\ suffix \in InputSuffixes
  /\ container = NoContainer

\* extract_images up to the call of the adapter: the two checks and the
\* creation of the output folder.
ExtractMain ==
  /\ tool = "extract" /\ pc = "main"
  /\ IF path_kind = "missing" THEN Exit(1) /\ UNCHANGED out_folder
     ELSE IF Lower(suffix) \notin {DotPdf, DotEpub, DotMobi}
     THEN Exit(1) /\ UNCHANGED out_folder
     ELSE /\ out_folder' = TRUE
          /\ pc' = "open"
          /\ UNCHANGED exit_status
  /\ UNCHANGED <<fs, image_files, idx, count, attempted, log, inputVars, dirVars,
                 suffix, written, container, page_num, tempdir>>

\* The first image reference at or after (page, index), in document order;
\* <<Len(doc), 0>> when there is none.
RECURSIVE Seek(_, _, _)
Seek(doc, page, index) ==
  IF page >= Len(doc) THEN <<Len(doc), 0>>
  ELSE IF index < doc[page + 1] THEN <<page, index>>
  ELSE Seek(doc, page + 1, 0)

\* extract_images_from_pdf up to the first image: fitz.open, which raises for
\* a directory and may raise for a file; nothing catches it.
ExtractOpenPdf ==
  /\ tool = "extract" /\ pc = "open" /\ Lower(suffix) = DotPdf
  /\ \/ /\ path_kind = "file"
        /\ container' \in Docs
        /\ page_num' = Seek(container', 0, 0)[1]
        /\ idx' = Seek(container', 0, 0)[2]
        /\ pc' = "loop"
        /\ UNCHANGED exit_status
     \/ /\ Exit(1)
        /\ UNCHANGED <<page_num, idx, container>>
  /\ count' = 0
  /\ UNCHANGED <<fs, image_files, attempted, log, inputVars, dirVars, suffix,
                 out_folder, written, tempdir>>

\* extract_images_from_epub up to the loop: zipfile.ZipFile, which raises for
\* a directory and may raise for a file, the listing and the sort.
ExtractOpenEpub ==
  /\ tool = "extract" /\ pc = "open" /\ Lower(suffix) = DotEpub
  /\ \/ /\ path_kind = "file"
        /\ container' \in Archives
        /\ image_files' \in SortedSeqs({n \in container' : IsImageName(n)}, "path")
        /\ pc' = "loop"
        /\ UNCHANGED exit_status
     \/ /\ Exit(1)
        /\ UNCHANGED <<image_files, container>>
  /\ idx' = 1
  /\ count' = 0
  /\ UNCHANGED <<fs, attempted, log, inputVars, dirVars, suffix, out_folder,
                 written, page_num, tempdir>>

\* The directory extract_images_from_mobi searches: mobi8 if it exists, else
\* mobi7 if it exists, else the whole temporary directory (<<>>).
SearchDir(tree) ==
  IF \E p \in tree : IsUnder(p, mobi8) THEN mobi8
  ELSE IF \E p \in tree : IsUnder(p, mobi7) THEN mobi7
  ELSE <<>>

\* for ext in IMAGE_EXTENSIONS: search_dir.rglob(f"*{ext}")
RGlobImages(tree, search_dir) ==
  {p \in tree : /\ search_dir # <<>> => IsUnder(p, search_dir)
                /\ \E ext \in IMAGE_EXTENSIONS : EndsWith(Name(p), ext)}

\* finally: shutil.rmtree(tempdir_path, ignore_errors=True)
MobiFinally(dir) == "removed"

\* extract_images_from_mobi up to the loop.  mobi.extract runs before the try
\* block: when it raises, the adapter has no directory to remove, and the
\* library may have made one.  Inside the try block an exception of the
\* listing runs the finally clause and leaves the adapter.
ExtractOpenMobi ==
  /\ tool = "extract" /\ pc = "open" /\ Lower(suffix) = DotMobi
  /\ \/ /\ path_kind = "file"
        /\ container' \in Trees
        /\ image_files' \in SortedSeqs(RGlobImages(container', SearchDir(container')), "name")
        /\ tempdir' = "exists"
        /\ pc' = "loop"
        /\ UNCHANGED exit_status
     \/ /\ path_kind = "file"               \* the listing raises
        /\ tempdir' = MobiFinally("exists")
        /\ Exit(1)
        /\ UNCHANGED <<image_files, container>>
     \/ /\ tempdir' \in {"none", "exists"}  \* mobi.extract raises
        /\ Exit(1)
        /\ UNCHANGED <<image_files, container>>
  /\ idx' = 1
  /\ count' = 0
  /\ UNCHANGED <<fs, attempted, log, inputVars, dirVars, suffix, out_folder,
                 written, page_num>>

\* Variant: the increment is the first statement of the try block.
ExtractCountFirst(image_count, raised) == image_count + 1

\* image_count after one item: the increment comes after the read of the
\* bytes and before save_image_as_jpg.
ExtractCount(image_count, raised) ==
  IF raised = "read" THEN image_count ELSE image_count + 1

\* The calls of save_image_as_jpg that can raise for these bytes; "save" is
\* the write of the output file, by f.write or by img.save.
SaveFaults(payload) ==
  IF payload.fmt = "JPEG" /\ payload.mode \notin {"RGBA", "P"}
  THEN {"none", "save"}
  ELSE (IF payload.mode \in {"RGBA", "P"} THEN {"convert"} ELSE {})
       \cup (IF JpegWritable(SaveMode(payload.mode)) THEN {"none", "save"} ELSE {"save"})

\* The output folder after save_image_as_jpg(image_bytes, output_path).
SaveImageAsJpg(files, output_path, src, payload, raised) ==
  CASE raised = "none" ->
         IF payload.fmt = "JPEG" /\ payload.mode \notin {"RGBA", "P"}
         THEN {Write(files, output_path, Jpeg(src, payload.mode, 0, 0))}
         ELSE {Write(files, output_path, Jpeg(src, SaveMode(payload.mode), 0, 0))}
    [] raised = "save" -> {files, Write(files, output_path, Partial(src))}
    [] OTHER -> {files}

\* The body of the try block of the three adapters, for the item src.
ExtractBody(src) ==
  \/ /\ log' = Append(log, "read")          \* the read of the bytes raises
     /\ count' = ExtractCount(count, "read")
     /\ written' = written
  \/ /\ log' = Append(log, "open")          \* Image.open raises
     /\ count' = ExtractCount(count, "open")
     /\ written' = written
  \/ \E payload \in Payloads : \E raised \in SaveFaults(payload) :
       /\ log' = Append(log, raised)
       /\ count' = ExtractCount(count, raised)
       /\ written' \in SaveImageAsJpg(written, Fmt04(count') \o DotJpg, src,
                                      payload, raised)

\* One iteration of the inner loop of extract_images_from_pdf.
ExtractPdfItem ==
  /\ tool = "extract" /\ pc = "loop" /\ Lower(suffix) = DotPdf
  /\ page_num < Len(container)
  /\ attempted' = Append(attempted, <<page_num, idx>>)
  /\ ExtractBody(<<page_num, idx>>)
  /\ page_num' = Seek(container, page_num, idx + 1)[1]
  /\ idx' = Seek(container, page_num, idx + 1)[2]
  /\ UNCHANGED <<pc, exit_status, fs, image_files, inputVars, dirVars, suffix,
                 out_folder, container, tempdir>>

\* One iteration of the loop of extract_images_from_epub / _from_mobi.
ExtractItem ==
  /\ tool = "extract" /\ pc = "loop" /\ Lower(suffix) # DotPdf
  /\ idx <= Len(image_files)
  /\ attempted' = Append(attempted, image_files[idx])
  /\ ExtractBody(image_files[idx])
  /\ idx' = NextIndex(idx)
  /\ UNCHANGED <<pc, exit_status, fs, image_files, inputVars, dirVars, suffix,
                 out_folder, container, page_num, tempdir>>

\* After the loop: the adapter returns image_count (MOBI: through its finally
\* clause) and extract_images prints the summary.
ExtractFinish ==
  /\ tool = "extract" /\ pc = "loop"
  /\ IF Lower(suffix) = DotPdf THEN page_num >= Len(container)
                               ELSE idx > Len(image_files)
  /\ tempdir' = IF Lower(suffix) = DotMobi THEN MobiFinally(tempdir) ELSE tempdir
  /\ Exit(0)
  /\ UNCHANGED <<fs, image_files, idx, count, attempted, log, inputVars, dirVars,
                 suffix, out_folder, written, container, page_num>>

NextExtract ==
  \/ ExtractMain
  \/ ExtractOpenPdf
  \/ ExtractOpenEpub
  \/ ExtractOpenMobi
  \/ ExtractPdfItem
  \/ ExtractItem
  \/ ExtractFinish

SpecExtract == InitExtract /\ [][NextExtract]_vars

(***************************************************************************)
(* The four tools.                                                         *)
(***************************************************************************)
Init == InitConvert \/ InitResize \/ InitPdf \/ InitExtract

Next == NextConvert \/ NextResize \/ NextPdf \/ NextExtract

Spec == Init /\ [][Next]_vars

(***************************************************************************)
(* Properties.                                                             *)
(***************************************************************************)
IsPdfRun == tool = "extract" /\ Lower(suffix) = DotPdf

\* The image references of a document in document order, as <<page, index>>.
RECURSIVE FlattenFrom(_, _, _)
FlattenFrom(doc, page, index) ==
  IF Seek(doc, page, index)[1] >= Len(doc) THEN <<>>
  ELSE <<Seek(doc, page, index)>>
         \o FlattenFrom(doc, Seek(doc, page, index)[1], Seek(doc, page, index)[2] + 1)

\* The items the Locator produced, in its order.
Located == IF IsPdfRun THEN FlattenFrom(container, 0, 0) ELSE image_files

\* The value of a string of decimal digits, -1 if it is not one.
RECURSIVE DecValue(_)
DecValue(str) ==
  IF str = <<>> THEN 0
  ELSE LET d == Ord[str[Len(str)]] - 48
           rest == DecValue(SubSeq(str, 1, Len(str) - 1))
       IN IF d < 0 \/ d > 9 \/ rest < 0 THEN -1 ELSE 10 * rest + d

\* name is "dddd.jpg" with dddd the 4-digit decimal numeral of k.
IsNumbered(name, k) ==
  /\ Len(name) = 8
  /\ SubSeq(name, 5, 8) = DotJpg
  /\ DecValue(SubSeq(name, 1, 4)) = k

\* The files of a folder that hold a complete JPEG written by the run.
Complete(files) == {p \in DOMAIN files : ~files[p].orig /\ files[p].mode # "partial"}

ExtractDone == tool = "extract" /\ pc = "done" /\ exit_status = 0

\* C1: an extraction run that locates N images and has no per-item failure
\* writes exactly the files 0001.jpg .. N.jpg, the k-th located item to the
\* file numbered k.
C1_SequentialNames ==
  (ExtractDone /\ Failures(log) = 0) =>
     /\ Cardinality(DOMAIN written) = Len(Located)
     /\ \A k \in 1..Len(Located) :
          \E name \in DOMAIN written :
             IsNumbered(name, k) /\ written[name].src = Located[k]

C1_Witness ==
  ExtractDone /\ Failures(log) = 0 /\ Len(Located) >= 2 /\ Len(attempted) >= 2

\* round(a / b) for naturals a and b > 0: to the nearest integer, a tie to
\* the even one.
RoundDiv(a, b) ==
  LET q == a \div b
      r == a % b
  IN IF 2 * r > b THEN q + 1
     ELSE IF 2 * r < b THEN q
     ELSE IF q % 2 = 0 THEN q ELSE q + 1

\* The last item of a resize run was opened and no call failed for a reason
\* outside the arithmetic (convert, save, unlink).
ResizedLast ==
  /\ tool = "resize"
  /\ log # <<>>
  /\ log[Len(log)] \in {"none", "resize"}
  /\ original_size # NoSize

LastOutput == fs[WithSuffix(attempted[Len(attempted)], DotJpg)]

\* C2 as stated: every image W x H resized to width T > 0 is written with
\* width T and height round(H * T / W), and is counted as processed.
C2_RoundedHeight ==
  ResizedLast =>
     /\ log[Len(log)] = "none"
     /\ count = Len(log)
     /\ LastOutput.w = target_width
     /\ LastOutput.h = RoundDiv(original_size[2] * target_width, original_size[1])

\* C2 amended: the height is int(H * (T / W)) in double precision, that is
\* H * T / W truncated, or one less than it for some sizes where W divides
\* H * T; the image is written with width T and that height and counted as
\* processed when the height is at least 1, and fails with nothing written
\* when it is 0.
C2_TruncatedHeight ==
  ResizedLast =>
     LET W == original_size[1]
         H == original_size[2]
         floor == (H * target_width) \div W
         exact == (H * target_width) % W = 0
     IN IF log[Len(log)] = "none"
        THEN /\ count = Len(log)
             /\ LastOutput.w = target_width
             /\ LastOutput.h >= 1
             /\ LastOutput.h = floor \/ (exact /\ LastOutput.h = floor - 1)
             /\ ~LastOutput.orig
        ELSE /\ count = Len(log) - 1
             /\ floor = 0 \/ (exact /\ floor = 1)
             /\ fs = fs0

\* A square image whose height comes out one below its width.
C2_Witness ==
  /\ ResizedLast
  /\ log = <<"none">>
  /\ original_size[1] = original_size[2]
  /\ LastOutput.w = target_width
  /\ LastOutput.h = target_width - 1

\* All image files of the folder are named as JPEG files, in any letter case.
AllJpeg(files) ==
  \A p \in IterDir(files) :
     IsImageName(p) => (Lower(Suffix(p)) = DotJpg \/ Lower(Suffix(p)) = DotJpeg)

FatalCondition ==
  \/ path_kind = "missing"
  \/ tool \in {"convert", "resize", "pdf"} /\ path_kind = "file"
  \/ tool = "extract" /\ path_kind = "dir"
  \/ tool = "extract" /\ Lower(suffix) \notin {DotPdf, DotEpub, DotMobi}
  \/ tool = "resize" /\ target_width <= 0
  \/ tool = "pdf" /\ {p \in IterDir(fs0) : IsImageName(p)} = {}
  \/ tool = "pdf" /\ pc = "done" /\ images = <<>>

\* C4: under a fatal condition no item is processed, no output file or folder
\* is created, and the process ends with status 1.
C4_FatalBeforeAnyWork ==
  FatalCondition =>
     /\ attempted = <<>>
     /\ ~out_folder
     /\ DOMAIN written = {}
     /\ output_pdf = NoPdf
     /\ fs = fs0
     /\ pc = "done" => exit_status = 1

\* C5: when the MOBI adapter has finished or failed, the temporary directory
\* of the unpacking does not exist.
C5_TempdirRemoved ==
  (tool = "extract" /\ Lower(suffix) = DotMobi /\ pc = "done") => tempdir # "exists"

\* Number of the first k attempted items whose read raised.
ReadFailures(l, k) == Cardinality({j \in 1..k : l[j] = "read"})

\* C6 as stated: every attempted item consumes a number, whatever step fails,
\* and a file written for the k-th item carries the number k.
C6_EveryItemNumbered ==
  tool = "extract" =>
     /\ count = Len(attempted)
     /\ \A name \in DOMAIN written :
          \E k \in 1..Len(attempted) :
             attempted[k] = written[name].src /\ IsNumbered(name, k)

\* C6 amended: the counter is incremented after the bytes of the item were
\* read and before save_image_as_jpg is called.  An item that fails in
\* decoding, converting or writing consumes its number; an item whose read
\* fails consumes none; the k-th item is assigned k minus the number of
\* earlier items whose read failed.
C6_NumberedAfterRead ==
  tool = "extract" =>
     /\ Len(log) = Len(attempted)
     /\ count = Len(attempted) - ReadFailures(log, Len(log))
     /\ \A name \in DOMAIN written :
          \E k \in 1..Len(attempted) :
             /\ attempted[k] = written[name].src
             /\ log[k] # "read"
             /\ IsNumbered(name, k - ReadFailures(log, k))
     /\ \A k \in 1..Len(attempted) :
          log[k] \in {"open", "convert"} =>
             ~\E name \in DOMAIN written : IsNumbered(name, k - ReadFailures(log, k))

C6_Witness ==
  /\ tool = "extract" /\ pc = "done"
  /\ log = <<"read", "open", "none">>
  /\ count = 2
  /\ DOMAIN written = {Fmt04(2) \o DotJpg}

\* attempted is the first Len(attempted) items of the Locator's list, each
\* with its outcome.
AttemptedInOrder ==
  /\ Len(attempted) <= Len(Located)
  /\ attempted = SubSeq(Located, 1, Len(attempted))
  /\ Len(log) = Len(attempted)

\* C7 as stated: the items are attempted once each, in Locator order, and a
\* run whose Locator produced items ends normally after attempting every
\* one of them.
C7_RunCompletes ==
  /\ AttemptedInOrder
  /\ (pc = "done" /\ Located # <<>>) => (attempted = Located /\ exit_status = 0)

\* C7 amended: the items are attempted once each, in Locator order, whatever
\* the earlier outcomes, and a run whose Locator produced items ends only
\* after attempting every one of them.  convert, resize and extract then
\* end with status 0.  images-to-pdf ends with status 1 when no image was
\* loaded, and otherwise makes its one save outside any handler: status 0
\* if it succeeds, and the run aborts with status 1 if it raises.
C7_LoopCompletes ==
  /\ AttemptedInOrder
  /\ (pc = "done" /\ Located # <<>>) =>
        /\ attempted = Located
        /\ exit_status =
             IF tool = "pdf" /\ (images = <<>> \/ output_pdf.state # "written")
             THEN 1 ELSE 0

C7_Witness ==
  /\ pc = "done" /\ exit_status = 0
  /\ Len(attempted) >= 3
  /\ log[1] # "none" /\ log[2] = "none" /\ log[3] # "none"

\* C8: every JPEG the run wrote, and every page it loaded, is in mode RGB.
C8_EncodedAsRgb ==
  /\ \A p \in Complete(fs) : fs[p].mode = "RGB"
  /\ \A p \in Complete(written) : written[p].mode = "RGB"
  /\ \A k \in 1..Len(images) : images[k].mode = "RGB"

\* C9: after a convert or resize run without failures every located image
\* is in a JPEG-named file of its own, so there are as many such files as
\* images found.
C9_NoSharedOutput ==
  (tool \in {"convert", "resize"} /\ pc = "done" /\ exit_status = 0
      /\ Failures(log) = 0) =>
     LET jpgs == {p \in DOMAIN fs : Lower(Suffix(p)) \in {DotJpg, DotJpeg}}
     IN /\ Cardinality(jpgs) = Len(image_files)
        /\ \A k \in 1..Len(image_files) :
             \E p \in jpgs : fs[p].src = fs0[image_files[k]].src

\* C10: the count an adapter returns is the number of files the run wrote.
C10_CountIsWritten ==
  ExtractDone => count = Cardinality(Complete(written))

====
